---- MODULE Spec2Model ----
(***************************************************************************)
(* VocabLah: the spaced-repetition engine of the review screen.            *)
(*                                                                         *)
(*   src/utils/srs.ts               settings, daily counters, calculateSM2 *)
(*   src/components/ReviewMode.tsx  the session component (the copy that   *)
(*                                  starts at line 546; the copy above it  *)
(*                                  has the same session logic)            *)
(*   src/App.tsx                    the word store and the navigation      *)
(*                                                                         *)
(* React semantics kept by the model:                                      *)
(*   - a handler reads the state of the render it was created in; the      *)
(*     callback that handleRate hands to setTimeout therefore calls the    *)
(*     handleNext / handleSessionComplete of the render of the press, and  *)
(*     these read currentIndex, currentBatchIds.length, completedIds.size, *)
(*     newCardsStarted.size and isPracticeMode as they were at the press;  *)
(*   - functional updates (setX(prev => ...)) act on the latest state;     *)
(*   - a pending timeout is not cleared on unmount: it still runs, its     *)
(*     setState calls do nothing, its localStorage writes happen;          *)
(*   - the passive effect of lines 754-758 has run before the next event.  *)
(*                                                                         *)
(* handleStartSession is modelled with its parameter practiceAllCards, for *)
(* both values.  (The Start button of line 905 passes the handler itself   *)
(* to onClick, so the click event, not `false`, arrives as the argument;   *)
(* the practice button of line 863 passes `true`.)                         *)
(*                                                                         *)
(* Numbers: easeFactor is held in hundredths (2.5 is 250); a calendar date *)
(* is a day number; `unlimited` / Infinity / 'all' is the value Infinity   *)
(* below, with the arithmetic JavaScript gives it.                         *)
(***************************************************************************)
EXTENDS Integers, Sequences, FiniteSets, TLC

VARIABLES
    \* ---- persisted state
    words,              \* App.tsx: the word store (useState<VocabWord[]>)
    dailyReviews,       \* localStorage vocab_lah_daily_reviews: date -> count
    dailyNew,           \* localStorage vocab_lah_daily_new_cards: date -> count
    today,              \* getTodayDate()
    newCardsLimit,      \* getSRSSettings().newCardsLimit
    maxReviewsLimit,    \* getSRSSettings().maxReviewsLimit
    autoMature,         \* getSRSSettings().autoMature
    learningSteps,      \* getSRSSettings().learningSteps
    sessionLimit,       \* App.tsx: sessionLimit
    \* ---- the ReviewMode component
    view,               \* App.tsx: currentView ("review": ReviewMode is mounted)
    selectedCollectionId,
    isSetupComplete,
    isPracticeMode,
    sessionWords,
    limitWarning,
    currentBatchIds,
    completedIds,
    newCardsStarted,
    currentIndex,       \* 0-based, as in the code
    isBatchComplete,
    isFlipped,
    timers,             \* the pending setTimeout callbacks of handleRate, oldest first
    \* ---- history (read by no action guard except the session bound)
    presses,            \* grade presses so far (the bound of the model)
    initialBatch,       \* the batch the current session was started with
    shown,              \* ids shown on the card so far in the current session
    newShown,           \* ids that had repetitions = 0 when first shown
    passed,             \* ids that received hard / good / easy in the current session
    owed,               \* ids graded `again` and not shown again since
    incCalls,           \* incrementDailyCounts calls made for the current session
    reentered,          \* the current session was opened by handleReviewAgain
    gradedAt,           \* the cursor at each grade press of the current session, in order
    failed              \* the ids graded `again` in the current session, in order

persisted == <<words, dailyReviews, dailyNew, today, newCardsLimit, maxReviewsLimit,
               autoMature, learningSteps, sessionLimit>>
component == <<view, selectedCollectionId, isSetupComplete, isPracticeMode, sessionWords,
               limitWarning, currentBatchIds, completedIds, newCardsStarted, currentIndex,
               isBatchComplete, isFlipped>>
history   == <<presses, initialBatch, shown, newShown, passed, owed, incCalls, reentered,
               gradedAt, failed>>
vars      == <<persisted, component, timers, history>>

----------------------------------------------------------------------------
\* Bounds of the model.
MaxPresses  == 3    \* grade presses in one run
MaxPending  == 2    \* grade presses whose delayed advance has not fired yet
SessionCap  == 2    \* the finite session-size option (10 / 20 / 50 in the app),
                    \* scaled to the size of the word lists of the model
MaxCount    == 2    \* largest stored daily count drawn by InitStart

\* Program constants (easeFactor in hundredths).
DefaultEase  == 250
MinEase      == 130
AgainPenalty == 20
HardPenalty  == 15
EasyBonus    == 15
MatureDays   == 60

Infinity == 0 - 1   \* parseInt(...) of 'unlimited' (srs.ts:24-25), and sessionLimit 'all'

Difficulty == {"again", "hard", "good", "easy"}
NullId     == "null"              \* selectedCollectionId === null ('All Collections')
Scopes     == {NullId, "c1", "c2"}

QuotaWarning == "You've reached your daily review limit!"
LimitsWarning == "Daily limits reached for today! Come back tomorrow."
EmptyWarning == "No cards available to practice."
NoWarning    == "none"

Max(a, b) == IF a >= b THEN a ELSE b
Min(a, b) == IF a <= b THEN a ELSE b

----------------------------------------------------------------------------
\* types.ts:12-25 (VocabWord; word / meaning / createdAt are carried by no logic here).
\* lastReviewDate is <<>> for null and <<d>> for a date.
Word(id, col, reps, ivl, ease, next, last, m) ==
    [id |-> id, collectionId |-> col, repetitions |-> reps, interval |-> ivl,
     easeFactor |-> ease, nextReviewDate |-> next, lastReviewDate |-> last, mastered |-> m]

\* utils/date.ts is not among the sources; day numbers stand for its ISO dates.
addDays(date, n) == date + n
isDue(date) == date <= today

\* srs.ts:56-58
isCardDue(w) == isDue(w.nextReviewDate)

\* faulty variant, for sensitivity: without an entry for today the entry of the latest
\* stored day is read
StoredCount_latestEntry(data) ==
    IF today \in DOMAIN data THEN data[today]
    ELSE IF DOMAIN data = {} THEN 0
    ELSE data[CHOOSE d \in DOMAIN data : \A e \in DOMAIN data : e <= d]

\* srs.ts:31-40: `reviewData[today] || 0`
StoredCount(data) == IF today \in DOMAIN data THEN data[today] ELSE 0
getDailyCounts == [reviews |-> StoredCount(dailyReviews), newCards |-> StoredCount(dailyNew)]

\* faulty variant, for sensitivity: the count of today is overwritten, not added to
AddToday_overwrites(data, count) ==
    [d \in (DOMAIN data) \cup {today} |-> IF d = today THEN count ELSE data[d]]

\* srs.ts:46, 50: `data[today] = (data[today] || 0) + count`
AddToday(data, count) ==
    [d \in (DOMAIN data) \cup {today} |-> IF d = today THEN StoredCount(data) + count ELSE data[d]]

\* faulty variant, for sensitivity: a half is rounded down
RoundedGrowth_halfDown(ivl, ease) == (ivl * ease + 49) \div 100

\* faulty variant, for sensitivity: the product is truncated (Math.floor)
RoundedGrowth_truncates(ivl, ease) == (ivl * ease) \div 100

\* Math.round(interval * easeFactor), easeFactor in hundredths
RoundedGrowth(ivl, ease) == (ivl * ease + 50) \div 100

\* faulty variant, for sensitivity: `easy` grows the interval by the raised ease factor
newIntervalOf_easyGrowsMore(w, difficulty) ==
    IF difficulty = "again" THEN 0
    ELSE IF w.repetitions = 0 THEN learningSteps[1]
    ELSE IF w.repetitions = 1 THEN learningSteps[2]
    ELSE IF difficulty = "easy" THEN (w.interval * (w.easeFactor + EasyBonus) + 50) \div 100
    ELSE (w.interval * w.easeFactor + 50) \div 100

\* srs.ts:114-140: the interval, repetitions and ease factor after a grade
newIntervalOf(w, difficulty) ==
    IF difficulty = "again" THEN 0
    ELSE IF w.repetitions = 0 THEN learningSteps[1]
    ELSE IF w.repetitions = 1 THEN learningSteps[2]
    ELSE RoundedGrowth(w.interval, w.easeFactor)

\* faulty variant, for sensitivity: a failure leaves the repetitions as they were
newRepetitionsOf_keptOnFail(w, difficulty) ==
    IF difficulty = "again" THEN w.repetitions ELSE w.repetitions + 1

newRepetitionsOf(w, difficulty) ==
    IF difficulty = "again" THEN 0 ELSE w.repetitions + 1

\* faulty variant, for sensitivity: `hard` has no floor
newEaseFactorOf_hardUnfloored(w, difficulty) ==
    CASE difficulty = "again" -> Max(MinEase, w.easeFactor - AgainPenalty)
      [] difficulty = "hard"  -> w.easeFactor - HardPenalty
      [] difficulty = "good"  -> w.easeFactor
      [] difficulty = "easy"  -> w.easeFactor + EasyBonus

newEaseFactorOf(w, difficulty) ==
    CASE difficulty = "again" -> Max(MinEase, w.easeFactor - AgainPenalty)
      [] difficulty = "hard"  -> Max(MinEase, w.easeFactor - HardPenalty)
      [] difficulty = "good"  -> w.easeFactor
      [] difficulty = "easy"  -> w.easeFactor + EasyBonus

\* faulty variant, for sensitivity: mastery is recomputed from the threshold alone
isMasteredOf_recomputed(w, newInterval) == autoMature /\ newInterval >= MatureDays

\* srs.ts:145-159
isMasteredOf(w, newInterval) ==
    IF w.mastered THEN TRUE
    ELSE autoMature /\ newInterval >= MatureDays

\* faulty variant, for sensitivity: the date of the last review is left as it was
calculateSM2_keepsLastReview(w, difficulty) ==
    LET newInterval == newIntervalOf(w, difficulty) IN
    [w EXCEPT !.interval = newInterval,
              !.repetitions = newRepetitionsOf(w, difficulty),
              !.easeFactor = newEaseFactorOf(w, difficulty),
              !.nextReviewDate = addDays(today, newInterval),
              !.mastered = isMasteredOf(w, newInterval)]

\* srs.ts:102-170
calculateSM2(w, difficulty) ==
    LET newInterval == newIntervalOf(w, difficulty) IN
    [w EXCEPT !.interval = newInterval,
              !.repetitions = newRepetitionsOf(w, difficulty),
              !.easeFactor = newEaseFactorOf(w, difficulty),
              !.nextReviewDate = addDays(today, newInterval),
              !.lastReviewDate = <<today>>,
              !.mastered = isMasteredOf(w, newInterval)]

\* srs.ts:172-197: the label of each grade button, from a simulated grade on a copy
IntervalLabel(days) ==
    IF days = 0 THEN "<1d" ELSE IF days = 1 THEN "1d" ELSE ToString(days) \o "d"
getSRSIntervalPreview(word) ==
    [diff \in Difficulty |-> IntervalLabel(calculateSM2(word, diff).interval)]

----------------------------------------------------------------------------
\* JavaScript arithmetic on limits that may be Infinity.
\* Math.max(0, limit - used)
SlotsLeft(limit, used) == IF limit = Infinity THEN Infinity ELSE Max(0, limit - used)
\* Math.min(a, b)
MinLimit(a, b) == IF a = Infinity THEN b ELSE IF b = Infinity THEN a ELSE Min(a, b)
\* array.slice(0, n) for n >= 0
Slice(s, n) == IF n = Infinity \/ n >= Len(s) THEN s ELSE SubSeq(s, 1, n)

\* cards.map(w => w.id)
Ids(s) == [i \in 1..Len(s) |-> s[i].id]
Range(s) == {s[i] : i \in 1..Len(s)}

\* ReviewMode.tsx:663-671: the base filter and the collection filter
InScope(w) == selectedCollectionId \in {NullId, "all"} \/ w.collectionId = selectedCollectionId
filteredWordsOf(practiceAllCards) ==
    LET IsCandidate(w) == (practiceAllCards \/ isCardDue(w)) /\ InScope(w)
    IN SelectSeq(words, IsCandidate)

\* ReviewMode.tsx:687-688
availableNewSlots == SlotsLeft(newCardsLimit, getDailyCounts.newCards)
availableReviewSlots == SlotsLeft(maxReviewsLimit, getDailyCounts.reviews)

\* ReviewMode.tsx:679-681, 701-703
applySessionLimit(cards) == Slice(cards, sessionLimit)

\* ReviewMode.tsx:684-685, 695-699
IsNewCard(w) == w.repetitions = 0
IsReviewCard(w) == w.repetitions > 0
limitedReviewsOf(filtered) == Slice(SelectSeq(filtered, IsReviewCard), availableReviewSlots)
\* faulty variant, for sensitivity: the room for new cards ignores the review cards already taken
spaceLeftForNewOf_ignoresReviews(limitedReviews) == availableReviewSlots
spaceLeftForNewOf(limitedReviews) == SlotsLeft(availableReviewSlots, Len(limitedReviews))
finalNewCardsOf(filtered, limitedReviews) ==
    Slice(SelectSeq(filtered, IsNewCard),
          MinLimit(availableNewSlots, spaceLeftForNewOf(limitedReviews)))

\* faulty variant, for sensitivity: the practice branch goes through the daily limits too
allowedCardsOf_limitsInPractice(practiceAllCards) ==
    LET filtered == filteredWordsOf(practiceAllCards)
        limitedReviews == limitedReviewsOf(filtered)
    IN applySessionLimit(limitedReviews \o finalNewCardsOf(filtered, limitedReviews))

\* ReviewMode.tsx:676-703: allowedCards of either branch
allowedCardsOf(practiceAllCards) ==
    LET filtered == filteredWordsOf(practiceAllCards) IN
    IF practiceAllCards
    THEN applySessionLimit(filtered)
    ELSE LET limitedReviews == limitedReviewsOf(filtered)
         IN applySessionLimit(limitedReviews \o finalNewCardsOf(filtered, limitedReviews))

----------------------------------------------------------------------------
\* ReviewMode.tsx:750-751: currentWordId = currentBatchIds[currentIndex] and
\* currentWord = sessionWords.find(w => w.id === currentWordId), on given values.
HasWordAt(sw, batch, idx) ==
    /\ idx < Len(batch)
    /\ \E i \in 1..Len(sw) : sw[i].id = batch[idx + 1]
WordAt(sw, batch, idx) ==
    sw[CHOOSE i \in 1..Len(sw) :
          /\ sw[i].id = batch[idx + 1]
          /\ \A j \in 1..(i - 1) : sw[j].id # batch[idx + 1]]

HasCurrentWord == HasWordAt(sessionWords, currentBatchIds, currentIndex)
currentWord == WordAt(sessionWords, currentBatchIds, currentIndex)

\* ReviewMode.tsx:830, 933, 986: the flashcard screen is the one rendered
CardShown == view = "review" /\ isSetupComplete /\ ~isBatchComplete /\ HasCurrentWord
SetupShown == view = "review" /\ ~isSetupComplete
SummaryShown == view = "review" /\ isSetupComplete /\ isBatchComplete

\* ReviewMode.tsx:754-758: the effect that records a started new card, on the state
\* an action leaves (the primed component state), from the set `started`.
newCardsStartedAfter(started) ==
    IF /\ ~isPracticeMode'
       /\ HasWordAt(sessionWords', currentBatchIds', currentIndex')
       /\ WordAt(sessionWords', currentBatchIds', currentIndex').repetitions = 0
    THEN started \cup {WordAt(sessionWords', currentBatchIds', currentIndex').id}
    ELSE started

\* The render that follows an action: the effect above, and the history of what the
\* card screen shows. `moved`: the cursor came to a new batch position in this step.
AfterRender(started, shownBefore, newShownBefore, owedBefore, moved) ==
    LET has == HasWordAt(sessionWords', currentBatchIds', currentIndex')
        w == WordAt(sessionWords', currentBatchIds', currentIndex')
        card == view' = "review" /\ isSetupComplete' /\ ~isBatchComplete' /\ has
    IN /\ newCardsStarted' = newCardsStartedAfter(started)
       /\ shown' = IF card THEN shownBefore \cup {w.id} ELSE shownBefore
       /\ newShown' = IF card /\ w.id \notin shownBefore /\ w.repetitions = 0
                      THEN newShownBefore \cup {w.id} ELSE newShownBefore
       /\ owed' = IF card /\ moved THEN owedBefore \ {w.id} ELSE owedBefore

\* srs.ts:42-52
incrementDailyCounts(reviewsCount, newCardsCount) ==
    /\ dailyReviews' = AddToday(dailyReviews, reviewsCount)
    /\ dailyNew' = AddToday(dailyNew, newCardsCount)

\* App.tsx:328-332 / ReviewMode.tsx:795-797: prev.map(w => w.id === updated.id ? updated : w)
ReplaceWord(list, updated) ==
    [i \in 1..Len(list) |-> IF list[i].id = updated.id THEN updated ELSE list[i]]

\* ReviewMode.tsx:604-625: the state of a freshly mounted component
FreshComponent ==
    /\ isSetupComplete' = FALSE
    /\ isPracticeMode' = FALSE
    /\ sessionWords' = <<>>
    /\ limitWarning' = NoWarning
    /\ currentBatchIds' = <<>>
    /\ completedIds' = {}
    /\ newCardsStarted' = {}
    /\ currentIndex' = 0
    /\ isBatchComplete' = FALSE
    /\ isFlipped' = FALSE

FreshHistory ==
    /\ initialBatch' = <<>>
    /\ shown' = {}
    /\ newShown' = {}
    /\ passed' = {}
    /\ owed' = {}
    /\ incCalls' = 0
    /\ reentered' = FALSE
    /\ gradedAt' = <<>>
    /\ failed' = <<>>

----------------------------------------------------------------------------
\* The word lists and settings of the session model. Day 0 is today.
NewLimitChoice    == 1     \* the finite newCardsLimit of the model (default 10)
ReviewLimitChoice == 2     \* the finite maxReviewsLimit of the model (default 100)

InitialWords ==
    << Word(1, "c1", 2, 6, DefaultEase, -1, <<-7>>, FALSE),    \* review card, overdue
       Word(2, "c2", 0, 0, DefaultEase, 0, <<>>, FALSE),       \* new card (App.tsx:316-323)
       Word(3, "c1", 2, 6, DefaultEase, 5, <<-1>>, FALSE) >>   \* review card, not due

\* <<newCardsLimit, maxReviewsLimit, sessionLimit>>: everything unlimited, or finite
SettingsChoices ==
    {<<Infinity, Infinity, Infinity>>, <<NewLimitChoice, ReviewLimitChoice, SessionCap>>}

NoCounts == [d \in {} |-> 0]

InitComponent ==
    /\ view = "dashboard"
    /\ selectedCollectionId = NullId
    /\ isSetupComplete = FALSE
    /\ isPracticeMode = FALSE
    /\ sessionWords = <<>>
    /\ limitWarning = NoWarning
    /\ currentBatchIds = <<>>
    /\ completedIds = {}
    /\ newCardsStarted = {}
    /\ currentIndex = 0
    /\ isBatchComplete = FALSE
    /\ isFlipped = FALSE
    /\ timers = <<>>
    /\ presses = 0
    /\ initialBatch = <<>>
    /\ shown = {}
    /\ newShown = {}
    /\ passed = {}
    /\ owed = {}
    /\ incCalls = 0
    /\ reentered = FALSE
    /\ gradedAt = <<>>
    /\ failed = <<>>

Init ==
    /\ words = InitialWords
    /\ dailyReviews = NoCounts
    /\ dailyNew = NoCounts
    /\ today = 0
    /\ \E cfg \in SettingsChoices :
          /\ newCardsLimit = cfg[1]
          /\ maxReviewsLimit = cfg[2]
          /\ sessionLimit = cfg[3]
    /\ autoMature = TRUE
    /\ learningSteps = <<1, 6>>
    /\ InitComponent

----------------------------------------------------------------------------
\* App.tsx:408-411 (handleStartReview) and ReviewMode.tsx:605, 632-636: the review
\* screen is opened on a collection, or on all of them.
handleStartReview(collectionId) ==
    /\ view = "dashboard"
    /\ view' = "review"
    /\ selectedCollectionId' = collectionId
    /\ UNCHANGED <<isSetupComplete, isPracticeMode, sessionWords, limitWarning,
                   currentBatchIds, completedIds, newCardsStarted, currentIndex,
                   isBatchComplete, isFlipped>>
    /\ UNCHANGED <<persisted, timers, history>>

\* A pending timeout outlives the component: its closure stays, its setState calls
\* are dropped.
Orphaned(ts) == [i \in 1..Len(ts) |-> [ts[i] EXCEPT !.live = FALSE, !.current = FALSE]]

\* App.tsx:493-496: leave the review screen (from setup, from the card screen, which
\* abandons the session, or from the summary); ReviewMode is unmounted.
onBackToDashboard ==
    /\ view = "review"
    /\ view' = "dashboard"
    /\ selectedCollectionId' = NullId
    /\ FreshComponent
    /\ FreshHistory
    /\ timers' = Orphaned(timers)
    /\ UNCHANGED <<persisted, presses>>

\* History: a pending callback of an earlier session of the component is not one of
\* the session that starts.
Superseded(ts) == [i \in 1..Len(ts) |-> [ts[i] EXCEPT !.current = FALSE]]

\* faulty variant, for sensitivity: the review-limit test is `< 0`, so a quota that is exactly used up passes it
startWarningOf_strictTest(practiceAllCards) ==
    IF ~practiceAllCards /\ availableReviewSlots # Infinity /\ availableReviewSlots < 0
    THEN QuotaWarning
    ELSE IF /\ ~practiceAllCards
            /\ Len(allowedCardsOf(practiceAllCards)) = 0
            /\ Len(filteredWordsOf(practiceAllCards)) > 0
    THEN LimitsWarning
    ELSE IF Len(allowedCardsOf(practiceAllCards)) = 0
    THEN EmptyWarning
    ELSE NoWarning

\* faulty variant, for sensitivity: the two empty-batch tests (705-714) are left out
startWarningOf_noEmptyTest(practiceAllCards) ==
    IF ~practiceAllCards /\ availableReviewSlots # Infinity /\ availableReviewSlots <= 0
    THEN QuotaWarning
    ELSE NoWarning

\* ReviewMode.tsx:690-714: the warning a start ends with, NoWarning when it succeeds
startWarningOf(practiceAllCards) ==
    IF ~practiceAllCards /\ availableReviewSlots # Infinity /\ availableReviewSlots <= 0
    THEN QuotaWarning
    ELSE IF /\ ~practiceAllCards
            /\ Len(allowedCardsOf(practiceAllCards)) = 0
            /\ Len(filteredWordsOf(practiceAllCards)) > 0
    THEN LimitsWarning
    ELSE IF Len(allowedCardsOf(practiceAllCards)) = 0
    THEN EmptyWarning
    ELSE NoWarning

\* ReviewMode.tsx:658-731. practiceAllCards is the handler's argument.
handleStartSession(practiceAllCards) ==
    /\ SetupShown
    /\ LET warning == startWarningOf(practiceAllCards)
           sessionWordsCopy == allowedCardsOf(practiceAllCards)
       IN IF warning # NoWarning
          THEN /\ limitWarning' = warning
               /\ UNCHANGED <<view, selectedCollectionId, isSetupComplete, isPracticeMode,
                              sessionWords, currentBatchIds, completedIds, newCardsStarted,
                              currentIndex, isBatchComplete, isFlipped>>
               /\ UNCHANGED <<persisted, timers, history>>
          ELSE /\ limitWarning' = NoWarning
               /\ sessionWords' = sessionWordsCopy
               /\ isPracticeMode' = practiceAllCards
               /\ isSetupComplete' = TRUE
               /\ currentBatchIds' = Ids(sessionWordsCopy)
               /\ completedIds' = {}
               /\ currentIndex' = 0
               /\ isBatchComplete' = (Len(sessionWordsCopy) = 0)
               /\ isFlipped' = FALSE
               /\ initialBatch' = Ids(sessionWordsCopy)
               /\ passed' = {}
               /\ incCalls' = 0
               /\ reentered' = FALSE
               /\ gradedAt' = <<>>
               /\ failed' = <<>>
               /\ timers' = Superseded(timers)
               /\ UNCHANGED <<view, selectedCollectionId, persisted, presses>>
               /\ AfterRender({}, {}, {}, {}, TRUE)

\* ReviewMode.tsx:1018: tap the card to reveal the answer
handleFlip ==
    /\ CardShown
    /\ ~isFlipped
    /\ isFlipped' = TRUE
    /\ UNCHANGED <<view, selectedCollectionId, isSetupComplete, isPracticeMode,
                   sessionWords, limitWarning, currentBatchIds, completedIds,
                   newCardsStarted, currentIndex, isBatchComplete>>
    /\ UNCHANGED <<persisted, timers, history>>

\* The closure of the callback handed to setTimeout (ReviewMode.tsx:804-815): the
\* values handleNext and handleSessionComplete of the press's render read.
Closure(difficulty) ==
    [difficulty |-> difficulty,
     wordId |-> currentWord.id,
     currentIndex |-> currentIndex,
     batchLength |-> Len(currentBatchIds),
     completedSize |-> Cardinality(completedIds),
     newCardsSize |-> Cardinality(newCardsStarted),
     isPracticeMode |-> isPracticeMode,
     live |-> TRUE,          \* the component of the press is still mounted
     current |-> TRUE]       \* history: the press belongs to the current session

\* faulty variant, for sensitivity: the update is handed over in practice mode only
persistsUpdate_inPractice == isPracticeMode

\* ReviewMode.tsx:799-801
persistsUpdate == ~isPracticeMode

\* ReviewMode.tsx:776-802 (the press; the delayed callback is TimerFires), in a run of
\* at most maxPresses presses of which at most maxPending wait for their callback
handleRateWithin(difficulty, maxPresses, maxPending) ==
    /\ CardShown
    /\ isFlipped
    /\ Len(timers) < maxPending
    /\ presses < maxPresses
    /\ presses' = presses + 1
    /\ LET updatedWord == calculateSM2(currentWord, difficulty) IN
       /\ sessionWords' = ReplaceWord(sessionWords, updatedWord)
       /\ words' = IF persistsUpdate THEN ReplaceWord(words, updatedWord) ELSE words
    /\ timers' = Append(timers, Closure(difficulty))
    /\ passed' = IF difficulty = "again" THEN passed ELSE passed \cup {currentWord.id}
    /\ UNCHANGED <<view, selectedCollectionId, isSetupComplete, isPracticeMode,
                   limitWarning, currentBatchIds, completedIds, currentIndex,
                   isBatchComplete, isFlipped>>
    /\ UNCHANGED <<dailyReviews, dailyNew, today, newCardsLimit, maxReviewsLimit,
                   autoMature, learningSteps, sessionLimit>>
    /\ gradedAt' = Append(gradedAt, currentIndex)
    /\ failed' = IF difficulty = "again" THEN Append(failed, currentWord.id) ELSE failed
    /\ UNCHANGED <<initialBatch, incCalls, reentered>>
    /\ AfterRender(newCardsStarted, shown, newShown,
                   IF difficulty = "again" THEN owed \cup {currentWord.id} ELSE owed,
                   FALSE)

handleRate(difficulty) == handleRateWithin(difficulty, MaxPresses, MaxPending)

\* ReviewMode.tsx:762: handleNext's test, on the values of the press's render
advances(t) == t.currentIndex < t.batchLength - 1

\* ReviewMode.tsx:770: handleSessionComplete's test, on the value of the press's render
countsSession(t) == ~t.isPracticeMode

\* ReviewMode.tsx:771: the deltas handed to incrementDailyCounts
reviewsDeltaOf(t) == t.completedSize
newCardsDeltaOf(t) == t.newCardsSize

\* ReviewMode.tsx:804-815 with handleNext (760-767) and handleSessionComplete (769-774):
\* the oldest pending callback runs.
TimerFires ==
    /\ timers # <<>>
    /\ LET t == Head(timers) IN
       /\ timers' = Tail(timers)
       /\ IF ~advances(t) /\ countsSession(t)
          THEN incrementDailyCounts(reviewsDeltaOf(t), newCardsDeltaOf(t))
          ELSE UNCHANGED <<dailyReviews, dailyNew>>
       /\ UNCHANGED <<words, today, newCardsLimit, maxReviewsLimit, autoMature,
                      learningSteps, sessionLimit>>
       /\ IF t.live
          THEN /\ isFlipped' = FALSE
               /\ currentBatchIds' = IF t.difficulty = "again"
                                     THEN Append(currentBatchIds, t.wordId)
                                     ELSE currentBatchIds
               /\ completedIds' = IF t.difficulty = "again"
                                  THEN completedIds
                                  ELSE completedIds \cup {t.wordId}
               /\ currentIndex' = IF advances(t) THEN currentIndex + 1 ELSE currentIndex
               /\ isBatchComplete' = IF advances(t) THEN isBatchComplete ELSE TRUE
               /\ incCalls' = IF ~advances(t) /\ countsSession(t) /\ t.current
                              THEN incCalls + 1 ELSE incCalls
               /\ UNCHANGED <<view, selectedCollectionId, isSetupComplete, isPracticeMode,
                              sessionWords, limitWarning>>
               /\ UNCHANGED <<presses, initialBatch, passed, reentered, gradedAt, failed>>
               /\ AfterRender(newCardsStarted, shown, newShown, owed,
                              currentIndex' # currentIndex)
          ELSE UNCHANGED <<component, history>>

\* ReviewMode.tsx:734: setIsPracticeMode(true)
reviewAgainMode == TRUE

\* ReviewMode.tsx:733-746
handleReviewAgain ==
    /\ SummaryShown
    /\ isPracticeMode' = reviewAgainMode
    /\ sessionWords' = [i \in 1..Len(sessionWords) |-> [sessionWords[i] EXCEPT !.mastered = FALSE]]
    /\ currentBatchIds' = Ids(sessionWords')
    /\ completedIds' = {}
    /\ currentIndex' = 0
    /\ isBatchComplete' = FALSE
    /\ isFlipped' = FALSE
    /\ initialBatch' = currentBatchIds'
    /\ passed' = {}
    /\ incCalls' = 0
    /\ reentered' = TRUE
    /\ gradedAt' = <<>>
    /\ failed' = <<>>
    /\ timers' = Superseded(timers)
    /\ UNCHANGED <<view, selectedCollectionId, isSetupComplete, limitWarning>>
    /\ UNCHANGED <<persisted, presses>>
    /\ AfterRender(newCardsStarted, {}, {}, {}, TRUE)

Next ==
    \/ \E c \in Scopes : handleStartReview(c)
    \/ onBackToDashboard
    \/ \E p \in BOOLEAN : handleStartSession(p)
    \/ handleFlip
    \/ \E d \in Difficulty : handleRate(d)
    \/ TimerFires
    \/ handleReviewAgain

Spec == Init /\ [][Next]_vars

----------------------------------------------------------------------------
\* The start of a session over a range of word stores, stored counts and settings:
\* the setup screen is open, and handleStartSession is applied.
NumWords == 3      \* words in the store

\* The kinds of word a store position holds, in either collection:
\* a due review card, a due new card, a review card that is not due.
WordKinds(id) ==
    {Word(id, c, k[1], k[2], DefaultEase, k[3], k[4], FALSE) :
        c \in {"c1", "c2"},
        k \in {<<2, 6, -1, <<-7>>>>, <<0, 0, 0, <<>>>>, <<2, 6, 5, <<-1>>>>}}

WordStores == {ws \in [1..NumWords -> UNION {WordKinds(i) : i \in 1..NumWords}] :
                  \A i \in 1..NumWords : ws[i].id = i}

\* localStorage as incrementDailyCounts leaves it: no entry before the first write
StoredAs(n) == IF n = 0 THEN NoCounts ELSE [d \in {0} |-> n]

InitStart ==
    /\ words \in WordStores
    /\ \E r \in 0..MaxCount : dailyReviews = StoredAs(r)
    /\ \E n \in 0..MaxCount : dailyNew = StoredAs(n)
    /\ today = 0
    /\ newCardsLimit \in {NewLimitChoice, Infinity}
    /\ maxReviewsLimit \in {ReviewLimitChoice, Infinity}
    /\ sessionLimit \in {SessionCap, Infinity}
    /\ autoMature = TRUE
    /\ learningSteps = <<1, 6>>
    /\ view = "review"
    /\ selectedCollectionId \in {NullId, "c1"}
    /\ isSetupComplete = FALSE
    /\ isPracticeMode = FALSE
    /\ sessionWords = <<>>
    /\ limitWarning = NoWarning
    /\ currentBatchIds = <<>>
    /\ completedIds = {}
    /\ newCardsStarted = {}
    /\ currentIndex = 0
    /\ isBatchComplete = FALSE
    /\ isFlipped = FALSE
    /\ timers = <<>>
    /\ presses = 0
    /\ initialBatch = <<>>
    /\ shown = {}
    /\ newShown = {}
    /\ passed = {}
    /\ owed = {}
    /\ incCalls = 0
    /\ reentered = FALSE
    /\ gradedAt = <<>>
    /\ failed = <<>>

NextStart == \E p \in BOOLEAN : handleStartSession(p)

SpecStart == InitStart /\ [][NextStart]_vars

----------------------------------------------------------------------------
\* The scheduler on one item: the item is graded again and again, under each stored
\* configuration of the learning steps and of the auto-mature flag.
MaxGrades == 4     \* grades given to the item in one run

\* What localStorage may hold under vocab_lah_learning_steps: what SettingsView wrote
\* (SettingsView.tsx:174-188), and arrays it did not write.
StoredStepChoices == {<<1, 6>>, <<2, 4>>, <<0, 6>>, <<1, 0>>, <<3>>, <<>>}

\* srs.ts:21, 27: the stored array when it has two entries or more, [1, 6] otherwise
learningStepsOf(stored) == IF Len(stored) >= 2 THEN stored ELSE <<1, 6>>

\* The items graded: a new word (App.tsx:310-323), mastered by hand or not
\* (App.tsx:401-405); a mastered word as the migration leaves it (App.tsx:115-125);
\* a word whose ease factor the failures and `hard` grades have brought to 1.4.
GradedItems ==
    {Word(1, "c1", 0, 0, DefaultEase, 0, <<>>, m) : m \in BOOLEAN}
    \cup {Word(1, "c1", 3, 21, DefaultEase, 21, <<>>, TRUE),
          Word(1, "c1", 3, 15, 140, 0, <<-15>>, FALSE)}

InitSM2 ==
    /\ \E w \in GradedItems : words = <<w>>
    /\ dailyReviews = NoCounts
    /\ dailyNew = NoCounts
    /\ today \in {0, 1}
    /\ newCardsLimit = Infinity
    /\ maxReviewsLimit = Infinity
    /\ sessionLimit = Infinity
    /\ autoMature \in BOOLEAN
    /\ \E stored \in StoredStepChoices : learningSteps = learningStepsOf(stored)
    /\ InitComponent

\* App.tsx:328-332 on the result of calculateSM2, as handleRate hands it over
\* (ReviewMode.tsx:788, 799-801): the stored item is replaced by its graded copy.
handleUpdateWord(difficulty) ==
    /\ presses < MaxGrades
    /\ presses' = presses + 1
    /\ words' = ReplaceWord(words, calculateSM2(words[1], difficulty))
    /\ UNCHANGED <<dailyReviews, dailyNew, today, newCardsLimit, maxReviewsLimit,
                   autoMature, learningSteps, sessionLimit>>
    /\ UNCHANGED <<component, timers>>
    /\ UNCHANGED <<initialBatch, shown, newShown, passed, owed, incCalls, reentered,
                   gradedAt, failed>>

NextSM2 == \E d \in Difficulty : handleUpdateWord(d)

SpecSM2 == InitSM2 /\ [][NextSM2]_vars

----------------------------------------------------------------------------
\* The daily counters over several days: sessions end and hand their deltas to
\* incrementDailyCounts, and the date getTodayDate returns moves on.
MaxDelta == 2      \* largest delta one call hands over
MaxCalls == 2      \* calls of incrementDailyCounts in one run
LastDay  == 2      \* the last day the clock reaches

\* localStorage as earlier days left it: nothing, or yesterday's entry
StoredBefore(n) == IF n = 0 THEN NoCounts ELSE [d \in {0 - 1} |-> n]

InitCounts ==
    /\ words = InitialWords
    /\ \E r \in 0..MaxCount : dailyReviews = StoredBefore(r)
    /\ \E n \in 0..MaxCount : dailyNew = StoredBefore(n)
    /\ today = 0
    /\ newCardsLimit = Infinity
    /\ maxReviewsLimit = Infinity
    /\ sessionLimit = Infinity
    /\ autoMature = TRUE
    /\ learningSteps = <<1, 6>>
    /\ InitComponent

\* ReviewMode.tsx:771: a completed session calls incrementDailyCounts (srs.ts:42-52)
sessionCounted(reviewsCount, newCardsCount) ==
    /\ incCalls < MaxCalls
    /\ incCalls' = incCalls + 1
    /\ incrementDailyCounts(reviewsCount, newCardsCount)
    /\ UNCHANGED <<words, today, newCardsLimit, maxReviewsLimit, autoMature,
                   learningSteps, sessionLimit>>
    /\ UNCHANGED <<component, timers>>
    /\ UNCHANGED <<presses, initialBatch, shown, newShown, passed, owed, reentered,
                   gradedAt, failed>>

\* getTodayDate (srs.ts:32, 43) returns the next date
dayPasses ==
    /\ today < LastDay
    /\ today' = today + 1
    /\ UNCHANGED <<words, dailyReviews, dailyNew, newCardsLimit, maxReviewsLimit,
                   autoMature, learningSteps, sessionLimit>>
    /\ UNCHANGED <<component, timers, history>>

NextCounts ==
    \/ \E r, n \in 0..MaxDelta : sessionCounted(r, n)
    \/ dayPasses

SpecCounts == InitCounts /\ [][NextCounts]_vars

----------------------------------------------------------------------------
\* The vocabulary of the claims, stated on the store and the settings.
reviewsToday == getDailyCounts.reviews
newItemsToday == getDailyCounts.newCards

\* the first n elements of s (all of s when n is unlimited)
Take(s, n) == IF n = Infinity THEN s ELSE [i \in 1..Min(Max(n, 0), Len(s)) |-> s[i]]

ItemInScope(w) == selectedCollectionId = NullId \/ w.collectionId = selectedCollectionId
ItemDue(w) == w.nextReviewDate <= today
ScopeItems == SelectSeq(words, ItemInScope)
DueInScope == SelectSeq(ScopeItems, ItemDue)
ItemIsReview(w) == w.repetitions > 0
ItemIsNew(w) == w.repetitions = 0

\* R = max(0, maxReviewsLimit - reviewsToday)
ReviewSlots == IF maxReviewsLimit = Infinity THEN Infinity
               ELSE Max(0, maxReviewsLimit - reviewsToday)
NewSlots == IF newCardsLimit = Infinity THEN Infinity
            ELSE Max(0, newCardsLimit - newItemsToday)
QuotaExhausted == maxReviewsLimit # Infinity /\ reviewsToday >= maxReviewsLimit

ReviewsKept == Take(SelectSeq(DueInScope, ItemIsReview), ReviewSlots)
NewKept ==
    LET left == IF ReviewSlots = Infinity THEN Infinity ELSE ReviewSlots - Len(ReviewsKept)
        n == IF NewSlots = Infinity THEN left
             ELSE IF left = Infinity THEN NewSlots ELSE Min(NewSlots, left)
    IN Take(SelectSeq(DueInScope, ItemIsNew), n)
ExpectedNormalBatch == Take(Ids(ReviewsKept \o NewKept), sessionLimit)
ExpectedPracticeBatch == Take(Ids(ScopeItems), sessionLimit)

WordById(id) == words[CHOOSE i \in 1..Len(words) : words[i].id = id]

\* C7: startSession in practice mode builds its batch from all items of the scope, due
\* or not, truncated only by the session-size cap; outcome and batch are the same for
\* every value of the daily counters and of newCardsLimit / maxReviewsLimit (they are
\* a function of the store, the scope and the cap alone).
C7_PracticeStartIgnoresQuota ==
    [][handleStartSession(TRUE) =>
          IF Len(ScopeItems) = 0
          THEN ~isSetupComplete' /\ limitWarning' = EmptyWarning
          ELSE /\ isSetupComplete' /\ isPracticeMode'
               /\ limitWarning' = NoWarning
               /\ currentBatchIds' = ExpectedPracticeBatch
               /\ currentIndex' = 0]_vars

\* C7 witness: a practice session was started with the review quota used up and the
\* new-card quota used up, and its batch holds an item that is not due.
C7_Witness ==
    /\ isSetupComplete /\ isPracticeMode
    /\ QuotaExhausted
    /\ newCardsLimit # Infinity /\ newItemsToday >= newCardsLimit
    /\ \E i \in 1..Len(currentBatchIds) : ~ItemDue(WordById(currentBatchIds[i]))
    /\ Len(currentBatchIds) < Len(ScopeItems)

\* C9: on a successful normal-mode startSession the initial batch is the due-and-in-scope
\* review items in caller order truncated to R = max(0, maxReviewsLimit - reviewsToday),
\* followed by the due-and-in-scope new items truncated to
\* min(max(0, newCardsLimit - newItemsToday), R - reviews kept), the whole truncated to
\* the session-size cap; no item that is not due or not in scope is in the batch, and
\* the batch is no longer than R or the cap.
C9_NormalStartBatch ==
    [][(handleStartSession(FALSE) /\ isSetupComplete') =>
          /\ currentBatchIds' = ExpectedNormalBatch
          /\ \A i \in 1..Len(currentBatchIds') :
                LET w == WordById(currentBatchIds'[i]) IN ItemDue(w) /\ ItemInScope(w)
          /\ ReviewSlots # Infinity => Len(currentBatchIds') <= ReviewSlots
          /\ sessionLimit # Infinity => Len(currentBatchIds') <= sessionLimit]_vars

\* C9 witness: a normal session whose batch is a kept review item followed by a kept new
\* item, with a due item of the scope left out by the limits.
C9_Witness ==
    /\ isSetupComplete /\ ~isPracticeMode
    /\ Len(currentBatchIds) = 2
    /\ ItemIsReview(WordById(currentBatchIds[1]))
    /\ ItemIsNew(WordById(currentBatchIds[2]))
    /\ Len(DueInScope) = 3
    /\ sessionLimit = Infinity

\* C10: in normal mode with reviewsToday >= maxReviewsLimit, startSession fails with
\* QuotaExhausted and the machine stays in Setup: no batch, cursor, completed set or
\* new-items set is created and the counters are unchanged; starting the same scope in
\* practice mode then succeeds with a non-empty batch when the scope holds an item.
C10_QuotaExhaustedThenPractice ==
    /\ [][(handleStartSession(FALSE) /\ QuotaExhausted) =>
             /\ limitWarning' = QuotaWarning
             /\ UNCHANGED <<isSetupComplete, isPracticeMode, sessionWords, currentBatchIds,
                            completedIds, newCardsStarted, currentIndex, isBatchComplete>>
             /\ UNCHANGED <<words, dailyReviews, dailyNew>>]_vars
    /\ [][(handleStartSession(TRUE) /\ limitWarning = QuotaWarning /\ Len(ScopeItems) > 0) =>
             /\ isSetupComplete' /\ isPracticeMode'
             /\ Len(currentBatchIds') > 0]_vars

\* C10 witness: the setup screen after a normal start was refused for the quota, with
\* due items in the scope.
C10_Witness ==
    /\ ~isSetupComplete
    /\ limitWarning = QuotaWarning
    /\ reviewsToday = maxReviewsLimit
    /\ Len(DueInScope) > 0
    /\ currentBatchIds = <<>>

\* The two ways the claim names for a normal start to end with nothing to show.
NothingDue == Len(DueInScope) = 0
OnlyNewAndNoNewSlot ==
    /\ Len(DueInScope) > 0
    /\ \A i \in 1..Len(DueInScope) : ItemIsNew(DueInScope[i])
    /\ NewSlots = 0
\* the messages the code gives for an empty batch (ReviewMode.tsx:706, 712)
EmptyQueueSignals == {LimitsWarning, EmptyWarning}

\* C11: when review slots remain but the final batch is empty (no due item in scope, or
\* every due item in scope is new and no new-item slot remains), startSession fails
\* with an EmptyQueue signal, which is not the QuotaExhausted one; the machine stays in
\* Setup and the counters are unchanged.  No start, in either mode, makes a session
\* Active with an empty batch.
C11_EmptyBatchFailsWithEmptyQueue ==
    /\ [][(handleStartSession(FALSE) /\ ~QuotaExhausted /\ (NothingDue \/ OnlyNewAndNoNewSlot)) =>
             /\ limitWarning' \in EmptyQueueSignals
             /\ limitWarning' # QuotaWarning
             /\ UNCHANGED <<isSetupComplete, isPracticeMode, sessionWords, currentBatchIds,
                            completedIds, newCardsStarted, currentIndex, isBatchComplete>>
             /\ UNCHANGED <<words, dailyReviews, dailyNew>>]_vars
    /\ [][((\E p \in BOOLEAN : handleStartSession(p)) /\ isSetupComplete') =>
             (Len(currentBatchIds') > 0 /\ ~isBatchComplete')]_vars

\* C11 witness: the setup screen after a normal start that found review slots left,
\* due items in the scope, all of them new, and no new-item slot.
C11_Witness ==
    /\ ~isSetupComplete
    /\ limitWarning \in EmptyQueueSignals
    /\ ~QuotaExhausted
    /\ OnlyNewAndNoNewSlot
    /\ currentBatchIds = <<>>

----------------------------------------------------------------------------
\* Steps of the session, for the claims about them.
\* a grade press (handleRate ran past its guard)
GradePressed == presses' = presses + 1
\* the oldest pending callback ran
CallbackRan == timers # <<>> /\ timers' = Tail(timers)
\* the session on the screen reaches Complete in normal mode
CompletesNormal ==
    /\ view = "review" /\ isSetupComplete /\ ~isPracticeMode
    /\ ~isBatchComplete /\ isBatchComplete'
\* today's counts, as getDailyCounts reads them, differ after the step
CountersChanged == reviewsToday' # reviewsToday \/ newItemsToday' # newItemsToday

\* C1: every item graded `again` is shown again at a later batch position before the
\* session reaches Complete, also when it was failed at the last position of the batch
\* (at Complete no failed item is still waiting to be shown).
C1_FailedItemShownAgain == SummaryShown => owed = {}

\* C2: for every normal-mode session that reaches Complete the daily counters are
\* incremented exactly once for that session, for any sequence of grade presses.
C2_CountedExactlyOnce == (SummaryShown /\ ~isPracticeMode) => incCalls = 1

\* C3: when a normal-mode session completes, the reviews delta added to today's counter
\* is the number of distinct items that received hard, good or easy in the session,
\* the item whose grade ended the session included.
C3_ReviewsDeltaCountsPassed ==
    [][CompletesNormal => reviewsToday' - reviewsToday = Cardinality(passed)]_vars

\* C4: the new-items delta added when a normal-mode session completes is the number of
\* distinct items whose repetitions was 0 when they were first shown, and an item that
\* entered the session with repetitions > 0 is never in the new-items-shown set, also
\* after it was graded `again` and shown again.
C4_NewItemsAreFirstShownNew ==
    /\ [][CompletesNormal => newItemsToday' - newItemsToday = Cardinality(newShown)]_vars
    /\ [][(view' = "review" /\ isSetupComplete' /\ ~isPracticeMode')
             => newCardsStarted' \subseteq newShown']_vars

\* C5: abandoning an Active session never changes the daily counters, also when a grade
\* was just pressed and its delayed advance has not fired yet (the counters change only
\* by a callback of a session that was not left).
C5_AbandonNeverCounts ==
    [][CountersChanged => (timers # <<>> /\ Head(timers).live)]_vars

\* a practice session is on the screen (Active or Complete)
PracticeSessionOpen == view = "review" /\ isSetupComplete /\ isPracticeMode
\* the word store and today's counts are what they were
PersistedUnchanged == words' = words /\ ~CountersChanged

\* C6: no practice session changes persisted state: while a practice session is open
\* (started in practice mode or entered by reviewAgain), for any sequence of grades,
\* the daily counters stay as they are and no updated item reaches the store.
C6_PracticeNeverPersists == [][PracticeSessionOpen => PersistedUnchanged]_vars

\* The part of C6 and C8 the code keeps: a grade pressed in practice mode, and the
\* delayed callback of such a press, change neither the word store nor the counters.
PracticePressesPersistNothing ==
    [][/\ (GradePressed /\ isPracticeMode) => PersistedUnchanged
       /\ (CallbackRan /\ Head(timers).isPracticeMode) => PersistedUnchanged]_vars

NoDuplicates(seq) == \A i, j \in 1..Len(seq) : seq[i] = seq[j] => i = j

\* C8: reviewAgain from Complete re-enters Active with cursor 0, an empty completed set
\* and a batch that holds each item id of the finished session once, in the original
\* candidate order; the session it opens is a practice session whatever the mode of the
\* finished one was: until it is left, completed or not, the counters are never
\* incremented and no item is persisted.
C8_ReviewAgainIsPractice ==
    /\ [][handleReviewAgain =>
             /\ isSetupComplete' /\ ~isBatchComplete'
             /\ currentIndex' = 0
             /\ completedIds' = {}
             /\ currentBatchIds' = initialBatch
             /\ NoDuplicates(currentBatchIds')
             /\ Range(currentBatchIds') = {sessionWords[i].id : i \in 1..Len(sessionWords)}
             /\ isPracticeMode']_vars
    /\ [][reentered => (isPracticeMode /\ PersistedUnchanged)]_vars

----------------------------------------------------------------------------
\* The scheduler claims, on the graded item of SpecSM2.  Ease factors are in
\* hundredths: 1.3 is 130, 0.2 is 20, 0.15 is 15.
item == words[1]
step1 == learningSteps[1]
step2 == learningSteps[2]
PassingGrades == {"hard", "good", "easy"}

\* round(x / 100), halves upwards, for x >= 0
RoundHundredths(x) ==
    CHOOSE n \in {x \div 100, x \div 100 + 1} : 100 * n - 50 <= x /\ x < 100 * n + 50

\* C12: grading `again` yields repetitions = 0, interval = 0 and
\* easeFactor = max(1.3, old easeFactor - 0.2); so under any number of consecutive
\* `again` grades interval and repetitions stay 0 and the ease factor never increases
\* and is never below 1.3.
C12_AgainResets ==
    [][handleUpdateWord("again") =>
          /\ item'.repetitions = 0
          /\ item'.interval = 0
          /\ item'.easeFactor = (IF item.easeFactor - 20 >= 130 THEN item.easeFactor - 20 ELSE 130)
          /\ item'.easeFactor <= item.easeFactor
          /\ item'.easeFactor >= 130]_vars

\* C12 witness: the item after consecutive `again` grades that brought the ease factor
\* to the floor.
C12_Witness ==
    /\ presses >= 2
    /\ item.repetitions = 0 /\ item.interval = 0
    /\ item.easeFactor = 130
    /\ item.lastReviewDate = <<today>>

\* C13: easeFactor >= 1.3 holds of the item after any sequence of grades, in any order.
C13_EaseNeverBelowFloor == item.easeFactor >= 130

\* C13 witness: a passing grade (`hard`) has taken the ease factor to 1.3.
C13_Witness ==
    /\ presses >= 1
    /\ item.repetitions >= 4
    /\ item.easeFactor = 130

\* C14: a passing grade sets interval to step1 when repetitions was 0, to step2 when it
\* was 1 and to round(old interval * old easeFactor) otherwise, and adds exactly 1 to
\* repetitions; so {easeFactor 2.5, interval 0, repetitions 0} with steps [1, 6] graded
\* `good` three times has intervals 1, 6, 15 and repetitions 1, 2, 3.
C14_PassInterval ==
    /\ [][\A d \in PassingGrades : handleUpdateWord(d) =>
             /\ item'.interval = (IF item.repetitions = 0 THEN step1
                                  ELSE IF item.repetitions = 1 THEN step2
                                  ELSE RoundHundredths(item.interval * item.easeFactor))
             /\ item'.repetitions = item.repetitions + 1]_vars
    /\ [](learningSteps = <<1, 6>> =>
             LET w0 == Word(1, "c1", 0, 0, 250, today, <<>>, FALSE)
                 w1 == calculateSM2(w0, "good")
                 w2 == calculateSM2(w1, "good")
                 w3 == calculateSM2(w2, "good")
             IN <<w1.interval, w2.interval, w3.interval>> = <<1, 6, 15>>
                /\ <<w1.repetitions, w2.repetitions, w3.repetitions>> = <<1, 2, 3>>)

\* C14 witness: the new item after three `good` grades under steps [1, 6].
C14_Witness ==
    /\ learningSteps = <<1, 6>>
    /\ presses = 3
    /\ item.repetitions = 3 /\ item.interval = 15 /\ item.easeFactor = 250

\* C15: on a passing grade the ease factor changes by the grade only (hard -0.15 with
\* the floor 1.3, good unchanged, easy +0.15), and hard, good and easy give the item
\* the same interval and the same repetitions.
C15_GradeMovesEaseOnly ==
    [][\A d \in PassingGrades : handleUpdateWord(d) =>
          /\ item'.easeFactor =
                (CASE d = "hard" -> (IF item.easeFactor - 15 >= 130 THEN item.easeFactor - 15 ELSE 130)
                   [] d = "good" -> item.easeFactor
                   [] d = "easy" -> item.easeFactor + 15)
          /\ \A e \in PassingGrades :
                /\ calculateSM2(item, e).interval = item'.interval
                /\ calculateSM2(item, e).repetitions = item'.repetitions]_vars

\* C15 witness: an item past the learning steps was graded `easy`.
C15_Witness ==
    /\ presses >= 1
    /\ item.repetitions >= 4
    /\ item.easeFactor > 250

\* C16: mastery is sticky under grading: every grade returns mastered = true when the
\* input had it (also `again`, which makes the item due today while mastered); mastered
\* turns from false to true exactly when the auto-mature flag is on and the new
\* interval is >= 60, and never when the flag is off.
C16_MasterySticky ==
    [][\A d \in Difficulty : handleUpdateWord(d) =>
          /\ item.mastered => item'.mastered
          /\ ~item.mastered => (item'.mastered <=> (autoMature /\ item'.interval >= 60))
          /\ ~autoMature => (item'.mastered = item.mastered)]_vars

\* C16 witness: a mastered item was graded `again`: it is due today and still mastered.
C16_Witness ==
    /\ presses >= 1
    /\ item.mastered
    /\ item.repetitions = 0 /\ item.interval = 0
    /\ item.nextReviewDate = today
    /\ item.lastReviewDate = <<today>>

\* C17: learning-step values are floored at 1 day: for every stored learning-steps
\* configuration, values of 0 or below included, a passing grade on an item with
\* repetitions 0 or 1 yields interval >= 1, so the item is not due again the same day.
C17_LearningStepsFloored ==
    [][\A d \in PassingGrades : (handleUpdateWord(d) /\ item.repetitions \in {0, 1}) =>
          (item'.interval >= 1 /\ item'.nextReviewDate > today)]_vars

----------------------------------------------------------------------------
\* The counter claims, on the stored counts of SpecCounts.
OtherDaysKept(before, after) ==
    /\ DOMAIN after = DOMAIN before \cup {today}
    /\ \A d \in DOMAIN before : d # today => after[d] = before[d]

\* C18: incrementDailyCounts is strictly additive and never decrements: on one day a
\* call with (r1, n1) followed by a call with (r2, n2) leaves what one call with
\* (r1 + r2, n1 + n2) leaves, each call adds exactly its deltas to the counts of today,
\* and for non-negative deltas no count of the day decreases.
C18_IncrementAdditive ==
    /\ [][\A r, n \in 0..MaxDelta : sessionCounted(r, n) =>
             /\ reviewsToday' = reviewsToday + r
             /\ newItemsToday' = newItemsToday + n
             /\ reviewsToday' >= reviewsToday /\ newItemsToday' >= newItemsToday
             /\ OtherDaysKept(dailyReviews, dailyReviews')
             /\ OtherDaysKept(dailyNew, dailyNew')]_vars
    /\ [](\A a, b \in 0..MaxDelta :
             /\ AddToday(AddToday(dailyReviews, a), b) = AddToday(dailyReviews, a + b)
             /\ AddToday(AddToday(dailyNew, a), b) = AddToday(dailyNew, a + b))

\* C18 witness: two calls on one day have added 1 + 2 reviews and 2 + 0 new cards to
\* yesterday's untouched entry.
C18_Witness ==
    /\ incCalls = 2
    /\ today = 0
    /\ reviewsToday = 3 /\ newItemsToday = 2
    /\ (0 - 1) \in DOMAIN dailyReviews

getDaysDifference(date1, date2) ==
    LET diffTime == IF date2 - date1 < 0 THEN date1 - date2 ELSE date2 - date1
    IN  diffTime

\* The dates the program holds: today and every word's due date.
DatesInUse ==
    {today} \cup {words[i].nextReviewDate : i \in DOMAIN words}

\* C20: the date difference is signed and antisymmetric: for all dates a and b,
\* daysBetween(a, b) = -daysBetween(b, a), positive when b is later than a and
\* negative when b is earlier.
C20_DaysBetweenAntisymmetric ==
    \A a, b \in DatesInUse :
        /\ getDaysDifference(a, b) = 0 - getDaysDifference(b, a)
        /\ (b > a => getDaysDifference(a, b) > 0)
        /\ (b < a => getDaysDifference(a, b) < 0)

----------------------------------------------------------------------------
\* The store and the session copy, for the claims about persistence.
\* a normal-mode session is on the screen (Active or Complete)
NormalSessionOpen == view = "review" /\ isSetupComplete /\ ~isPracticeMode
\* the store holds, for every item of the session, what the session holds for it
StoreFollowsSession ==
    \A i \in 1..Len(sessionWords) : WordById(sessionWords[i].id) = sessionWords[i]
\* the store entry of `id` after the step
StoredAfter(id) == words'[CHOOSE i \in 1..Len(words') : words'[i].id = id]
\* every store entry but the one of `id` is what it was
OthersUnchanged(id) ==
    /\ Len(words') = Len(words)
    /\ \A i \in 1..Len(words) : words[i].id # id => words'[i] = words[i]

\* C21: in normal mode every grade hands the updated item to the store at the moment of
\* the press, before the cursor advances; so after an abandon at any point the store
\* holds the scheduler's result for every item graded so far, and items never graded in
\* the session are unchanged in the store.
C21_GradePersistsAtPress ==
    /\ [][\A d \in Difficulty : (handleRate(d) /\ ~isPracticeMode) =>
             /\ StoredAfter(currentWord.id) = calculateSM2(currentWord, d)
             /\ OthersUnchanged(currentWord.id)
             /\ currentIndex' = currentIndex]_vars
    /\ [][words' # words => (GradePressed /\ ~isPracticeMode)]_vars
    /\ [][onBackToDashboard => words' = words]_vars
    /\ [](NormalSessionOpen => StoreFollowsSession)

\* C21 witness: a normal session was abandoned right after a grade, before the delayed
\* advance of that grade fired: the store holds the graded item, the others are as
\* they were.
C21_Witness ==
    /\ view = "dashboard"
    /\ timers # <<>>
    /\ words[1] = calculateSM2(InitialWords[1], "good")
    /\ words[2] = InitialWords[2] /\ words[3] = InitialWords[3]

----------------------------------------------------------------------------
\* C22: the grading events of one session are strictly sequential: each batch position
\* is graded exactly once and the cursor advances by exactly one per grade, so the k-th
\* grade of a session is given at position k - 1: no position is skipped and none is
\* graded twice, also when a second grade is pressed before the delayed advance of the
\* previous grade has fired.
C22_GradesSequential ==
    \A k \in 1..Len(gradedAt) : gradedAt[k] = k - 1

----------------------------------------------------------------------------
\* round(x / 100) with halves away from zero
RoundHalfAway(x) == IF x >= 0 THEN RoundHundredths(x) ELSE 0 - RoundHundredths(0 - x)

----------------------------------------------------------------------------
\* a session is on the screen (Active or Complete)
SessionOpen == view = "review" /\ isSetupComplete
\* the `again` grades of the current session whose delayed callback has not run yet
PendingAgain ==
    Cardinality({i \in 1..Len(timers) : timers[i].current /\ timers[i].difficulty = "again"})
\* the `again` grades of the current session that have been processed, in order
ProcessedFailures == SubSeq(failed, 1, Len(failed) - PendingAgain)
\* the step does not open a session
NoSessionOpened == ~handleReviewAgain /\ ~(~isSetupComplete /\ isSetupComplete')

\* C24: the batch is append-only during a session: grading never removes or reorders an
\* entry, an `again` grade appends exactly the graded id at the tail and a non-failing
\* grade appends nothing; after each grade has been processed the batch is the initial
\* batch followed by the ids failed so far, in the order in which they were failed, so
\* its length is the initial length plus the number of `again` grades.
C24_BatchAppendOnly ==
    SessionOpen => currentBatchIds = initialBatch \o ProcessedFailures

----------------------------------------------------------------------------
\* the session on the screen is Active: started and not Complete
SessionActive == view = "review" /\ isSetupComplete /\ ~isBatchComplete

\* C25: whenever the session is Active the cursor is smaller than the batch length and
\* the id at the cursor resolves to a session item: the machine is never in a state
\* that is neither Complete nor has a current item, for any sequence and timing of
\* grade presses.
C25_ActiveHasCurrentItem ==
    SessionActive => (currentIndex < Len(currentBatchIds) /\ HasCurrentWord)

----------------------------------------------------------------------------
\* the delayed callback of a grade of the session on the screen runs
GradeProcessed == CallbackRan /\ Head(timers).live /\ Head(timers).current /\ SessionActive
\* the batch positions from the cursor to the end, after the step
PositionsLeftAfter == Len(currentBatchIds') - currentIndex'
\* the ids at or after the cursor, after the step
IdsAheadAfter == {currentBatchIds'[i] : i \in (currentIndex' + 1)..Len(currentBatchIds')}

\* C26: a session terminates once failures stop, and not before: every processed
\* non-failing grade either completes the session or leaves it showing an item with
\* fewer positions left than before (so a run of non-failing grades reaches Complete
\* after finitely many grades); every processed `again` leaves the session Active with
\* the failed item still ahead of the cursor, so an item failed again and again is shown
\* again and again (repeats are unbounded).
C26_TerminatesWhenFailuresStop ==
    /\ [][(GradeProcessed /\ Head(timers).difficulty # "again") =>
             \/ isBatchComplete'
             \/ /\ HasWordAt(sessionWords', currentBatchIds', currentIndex')
                /\ PositionsLeftAfter < Len(currentBatchIds) - currentIndex]_vars
    /\ [][(GradeProcessed /\ Head(timers).difficulty = "again") =>
             /\ ~isBatchComplete'
             /\ HasWordAt(sessionWords', currentBatchIds', currentIndex')
             /\ Head(timers).wordId \in IdsAheadAfter]_vars

\* The first half of C26 taken alone.
PassingGradeMakesProgress ==
    [][(GradeProcessed /\ Head(timers).difficulty # "again") =>
          \/ isBatchComplete'
          \/ /\ HasWordAt(sessionWords', currentBatchIds', currentIndex')
             /\ PositionsLeftAfter < Len(currentBatchIds) - currentIndex]_vars

----------------------------------------------------------------------------
----------------------------------------------------------------------------
\* One day under finite daily limits: two due review cards, a review limit of two, and
\* runs long enough for three presses on one card.
DayPresses == 4    \* grade presses in one run
DayPending == 3    \* grade presses whose delayed advance has not fired yet

DueReviewWords ==
    << Word(1, "c1", 2, 6, DefaultEase, -1, <<-7>>, FALSE),
       Word(2, "c1", 2, 6, DefaultEase, 0, <<-6>>, FALSE) >>

InitDay ==
    /\ words = DueReviewWords
    /\ dailyReviews = NoCounts
    /\ dailyNew = NoCounts
    /\ today = 0
    /\ newCardsLimit = NewLimitChoice
    /\ maxReviewsLimit = ReviewLimitChoice
    /\ sessionLimit = Infinity
    /\ autoMature = TRUE
    /\ learningSteps = <<1, 6>>
    /\ InitComponent

NextDay ==
    \/ \E c \in Scopes : handleStartReview(c)
    \/ onBackToDashboard
    \/ \E p \in BOOLEAN : handleStartSession(p)
    \/ handleFlip
    \/ \E d \in Difficulty : handleRateWithin(d, DayPresses, DayPending)
    \/ TimerFires
    \/ handleReviewAgain

SpecDay == InitDay /\ [][NextDay]_vars

\* C27: the daily review ceiling: for a finite maxReviewsLimit, after any sequence of
\* sessions on one day (normal or practice, completed, abandoned or followed by
\* reviewAgain), reviewsToday never exceeds maxReviewsLimit.
C27_ReviewCeiling ==
    maxReviewsLimit # Infinity => reviewsToday <= maxReviewsLimit

----------------------------------------------------------------------------
\* C28: the daily new-item ceiling: for a finite newCardsLimit, after any sequence of
\* sessions on one day and any sequence of grades inside them (`again` grades on review
\* items included), newItemsToday never exceeds newCardsLimit.
C28_NewItemCeiling ==
    newCardsLimit # Infinity => newItemsToday <= newCardsLimit

----------------------------------------------------------------------------
\* the batch from the cursor to the end
BatchAhead == SubSeq(currentBatchIds, currentIndex + 1, Len(currentBatchIds))

\* C29: with distinct item ids, at every point of an Active session no id occurs more
\* than once among the batch positions at or after the cursor, and an id of the
\* completed set never occurs at or after the cursor: an item that has received a
\* non-failing grade is not shown again in the session, and the completed set of a
\* session only grows.
C29_NoRepeatAhead ==
    /\ [](SessionActive =>
             /\ NoDuplicates(BatchAhead)
             /\ Range(BatchAhead) \cap completedIds = {})
    /\ [][(SessionActive /\ NoSessionOpened /\ view' = "review") =>
             completedIds \subseteq completedIds']_vars

----------------------------------------------------------------------------
\* the fields of an item the scheduler may change
ScheduledFields == {"interval", "repetitions", "easeFactor", "nextReviewDate",
                    "lastReviewDate", "mastered"}

====
